---- MODULE Spec2Model ----
(***************************************************************************)
(* Model of src/f5_tts/infer/infer_gradio.py: the text preprocessing       *)
(* (convert_numbers_to_arabic_text, parse_speechtypes_text), the           *)
(* multi-style tab's handlers, the voice-chat handlers and the command     *)
(* line entry point.                                                       *)
(*                                                                         *)
(* Every Python value is a sequence: a str is the sequence of its           *)
(* characters; None, True, False, a file path and other values taken whole *)
(* are one-element sequences.                                              *)
(***************************************************************************)
EXTENDS Integers, Sequences, FiniteSets, TLC

VARIABLES
    pc,                 \* position of the handler under study
    gen_text,           \* parse_speechtypes_text: its argument
    segments,           \* parse_speechtypes_text: its return value
    text,               \* convert_numbers_to_arabic_text: its argument
    text_translated,    \* convert_numbers_to_arabic_text: its return value
    speech_type_count,  \* gr.State: the number of additional speech types
    speech_type_rows,   \* the 99 additional rows: the indices of those visible
    chatbot_interface,  \* gr.Chatbot: the displayed history, (user, assistant) pairs
    conversation_state, \* gr.State: the messages given to the chat model
    process_calls,      \* the calls of process_audio_input waiting at line 591 or 599
    regular_name,       \* Textbox: the name of the mandatory speech type
    regular_audio,      \* Audio: its reference audio
    regular_ref_text,   \* Textbox: its reference text
    name_inputs,        \* the rows' name Textboxes: row index |-> value, where filled in
    audio_inputs,       \* the rows' reference Audios, likewise
    ref_text_inputs,    \* the rows' reference-text Textboxes, likewise
    gen_text_input_multistyle,  \* Textbox: the text to generate
    model_choice_multistyle,    \* Radio: the model
    remove_silence_multistyle,  \* Checkbox: remove silence
    infer_calls,        \* the calls of infer made by the last generate click
    generate_multistyle_btn,    \* the generate button: whether it is interactive
    port, host, share, api,     \* main: the command-line options
    launch              \* main: the arguments of app.queue(...).launch(...), once called

(***************************************************************************)
(* Bounds of the model.                                                    *)
(***************************************************************************)
\* the texts given to the two text functions have at most MaxTextLen characters
MaxTextLen == 5
\* the delete buttons clicked are those of the first NumDeleteRows rows and
\* of the last row
NumDeleteRows == 2
\* the chat is followed up to MaxTurns exchanges and 1 + 2 * MaxTurns messages
MaxTurns == 3
\* the texts given to parse_speechtypes_text are also those made of at most
\* MaxPieces markers, runs and stray braces
MaxPieces == 4
\* a generation text is made of at most MaxChunks marked or unmarked chunks
MaxChunks == 2
\* an insert button is clicked while the generation text has at most
\* MaxInsertLen characters
MaxInsertLen == 4

\* every string over alphabet A of length at most n
Strings(A, n) == UNION {[1..k -> A] : k \in 0..n}

(***************************************************************************)
(* Program constants and Python values.                                    *)
(***************************************************************************)
max_speech_types == 100

\* indices of the additional speech-type rows (range(max_speech_types - 1))
RowIndex == 0..(max_speech_types - 2)

None == <<"None">>
True == <<"True">>
False == <<"False">>

\* bool(v) of a str, a bool or None
truthy(v) == v \notin {<<>>, None, False}

\* "Regular"
Regular == <<"R", "e", "g", "u", "l", "a", "r">>

\* A Python list is a sequence; list index k is position k + 1.
\* args[a:b]
py_slice(args, a, b) ==
    LET hi == IF b < Len(args) THEN b ELSE Len(args) IN
    IF a >= hi THEN <<>> ELSE SubSeq(args, a + 1, hi)

\* args[k]
py_index(args, k) == args[k + 1]

\* the value of the component of row i: the one filled in, or the value the
\* component was constructed with
row_value(filled, i, constructed) == IF i \in DOMAIN filled THEN filled[i] ELSE constructed

\* the list of the values of the max_speech_types - 1 row components
component_list(filled, constructed) ==
    [k \in 1..(max_speech_types - 1) |-> row_value(filled, k - 1, constructed)]

(***************************************************************************)
(* The state as constructed.  A specification that studies one part of the *)
(* program leaves the other parts as they are here.                        *)
(***************************************************************************)
parseVars == <<gen_text, segments>>
numVars == <<text, text_translated>>
rowVars == <<speech_type_count, speech_type_rows>>
chatVars == <<chatbot_interface, conversation_state, process_calls>>
multiInputs == <<regular_name, regular_audio, regular_ref_text, name_inputs, audio_inputs,
                 ref_text_inputs, gen_text_input_multistyle, model_choice_multistyle,
                 remove_silence_multistyle>>
multiVars == <<multiInputs, infer_calls, generate_multistyle_btn>>
mainVars == <<port, host, share, api, launch>>

vars == <<pc, parseVars, numVars, rowVars, chatVars, multiVars, mainVars>>

IdleParse == gen_text = <<>> /\ segments = <<>>

IdleNum == text = <<>> /\ text_translated = <<>>

\* speech_type_count and the hidden rows (lines 274-275, 293)
IdleRows == speech_type_count = 0 /\ speech_type_rows = {}

\* the system prompt of lines 552, 577 and 633, kept as one element
default_system_prompt == <<"default system prompt">>

\* conversation_state as constructed (lines 573-580)
initial_conv_state == <<[role |-> "system", content |-> default_system_prompt]>>

IdleChat ==
    /\ chatbot_interface = <<>>
    /\ conversation_state = initial_conv_state
    /\ process_calls = <<>>

\* the multi-style tab as constructed (lines 259-262, 274-287, 339-370)
IdleMulti ==
    /\ regular_name = Regular
    /\ regular_audio = None
    /\ regular_ref_text = <<>>
    /\ name_inputs = <<>>
    /\ audio_inputs = <<>>
    /\ ref_text_inputs = <<>>
    /\ gen_text_input_multistyle = <<>>
    /\ model_choice_multistyle = <<"F5-TTS">>
    /\ remove_silence_multistyle = False
    /\ infer_calls = <<>>
    /\ generate_multistyle_btn = TRUE

\* the command line with no option given (lines 728-737), nothing launched
IdleMain ==
    /\ port = None
    /\ host = None
    /\ share = False
    /\ api = True
    /\ launch = None

(***************************************************************************)
(* Python str helpers.                                                     *)
(***************************************************************************)
\* str.isspace for one character
IsSpace(c) == c \in {" ", "\n", "\t"}

RECURSIVE lstrip(_)
lstrip(s) == IF s # <<>> /\ IsSpace(Head(s)) THEN lstrip(Tail(s)) ELSE s

RECURSIVE rstrip(_)
rstrip(s) == IF s # <<>> /\ IsSpace(s[Len(s)]) THEN rstrip(SubSeq(s, 1, Len(s) - 1)) ELSE s

\* str.strip()
strip(s) == rstrip(lstrip(s))

(***************************************************************************)
(* parse_speechtypes_text (lines 194-216).                                 *)
(***************************************************************************)
\* The end of the match of \{(.*?)\} that starts at p, or 0 when there is
\* none: text[p] is "{" and the lazy .*? stops at the first "}" it can reach;
\* "." does not match a newline.
RECURSIVE lazy_close(_, _)
lazy_close(s, q) ==
    IF q > Len(s) THEN 0
    ELSE IF s[q] = "}" THEN q
    ELSE IF s[q] = "\n" THEN 0
    ELSE lazy_close(s, q + 1)

match_at(s, p) == IF p <= Len(s) /\ s[p] = "{" THEN lazy_close(s, p + 1) ELSE 0

\* re.search from position p: the leftmost start of a match, or 0
RECURSIVE search_from(_, _)
search_from(s, p) ==
    IF p > Len(s) THEN 0
    ELSE IF match_at(s, p) # 0 THEN p
    ELSE search_from(s, p + 1)

\* re.split(r"\{(.*?)\}", s) scanning from position pos: the text before each
\* match, the match's group, ..., the text after the last match
RECURSIVE re_split_from(_, _)
re_split_from(s, pos) ==
    LET p == search_from(s, pos) IN
    IF p = 0 THEN <<SubSeq(s, pos, Len(s))>>
    ELSE LET q == match_at(s, p) IN
         <<SubSeq(s, pos, p - 1), SubSeq(s, p + 1, q - 1)>> \o re_split_from(s, q + 1)

re_split(s) == re_split_from(s, 1)

\* the loop of lines 205-214 with a style that is set by the first marker
\* only and kept from then on
RECURSIVE parse_loop_first_marker(_, _, _, _)
parse_loop_first_marker(tokens, i, current_style, acc) ==
    IF i >= Len(tokens) THEN acc
    ELSE IF i % 2 = 0
         THEN LET t == strip(tokens[i + 1]) IN
              parse_loop_first_marker(tokens, i + 1, current_style,
                                      IF t # <<>>
                                      THEN Append(acc, [style |-> current_style, text |-> t])
                                      ELSE acc)
         ELSE parse_loop_first_marker(tokens, i + 1,
                                      IF i = 1 THEN strip(tokens[i + 1]) ELSE current_style,
                                      acc)

\* the loop of lines 205-214 from token i (0-based) on
RECURSIVE parse_loop(_, _, _, _)
parse_loop(tokens, i, current_style, acc) ==
    IF i >= Len(tokens) THEN acc
    ELSE IF i % 2 = 0
         THEN LET t == strip(tokens[i + 1]) IN
              parse_loop(tokens, i + 1, current_style,
                         IF t # <<>>
                         THEN Append(acc, [style |-> current_style, text |-> t])
                         ELSE acc)
         ELSE parse_loop(tokens, i + 1, strip(tokens[i + 1]), acc)

parse_speechtypes_text(t) == parse_loop(re_split(t), 0, Regular, <<>>)

(***************************************************************************)
(* Specification of parse_speechtypes_text on every bounded input.         *)
(***************************************************************************)
ParseAlphabet == {"{", "}", " ", "\n", "a", "b"}

\* the pieces longer texts are made of: markers, one of them with a blank
\* inside, runs of text, a line break and stray braces
Pieces == {<<"{", "a", "}">>, <<"{", " ", "b", "}">>, <<"{", "}">>,
           <<"x">>, <<"y", " ">>, <<"\n">>, <<"{">>, <<"}">>}

RECURSIVE PieceTexts(_)
PieceTexts(n) ==
    IF n = 0 THEN {<<>>}
    ELSE LET shorter == PieceTexts(n - 1) IN
         shorter \cup {t \o c : t \in shorter, c \in Pieces}

InitParse ==
    /\ pc = "input"
    /\ gen_text \in Strings(ParseAlphabet, MaxTextLen) \cup PieceTexts(MaxPieces)
    /\ segments = <<>>
    /\ IdleNum
    /\ IdleRows
    /\ IdleChat
    /\ IdleMulti
    /\ IdleMain

CallParse ==
    /\ pc = "input"
    /\ segments' = parse_speechtypes_text(gen_text)
    /\ pc' = "done"
    /\ UNCHANGED <<gen_text, numVars, rowVars, chatVars, multiVars, mainVars>>

NextParse == CallParse

SpecParse == InitParse /\ [][NextParse]_vars

(***************************************************************************)
(* C2: the segments, stated from the input text alone.  What may stand     *)
(* between the braces of a marker is a parameter: inner is the set of      *)
(* characters that may not.                                                *)
(***************************************************************************)
\* text[p..q] is a {...} marker: an opening brace, a closing brace, and
\* between them neither a closing brace nor a character of inner
IsMarker(t, p, q, inner) ==
    /\ p < q
    /\ t[p] = "{"
    /\ t[q] = "}"
    /\ \A k \in (p + 1)..(q - 1) : t[k] \notin ({"}"} \cup inner)

MarkerEnd(t, p, inner) ==
    IF \E q \in 1..Len(t) : IsMarker(t, p, q, inner)
    THEN CHOOSE q \in 1..Len(t) : IsMarker(t, p, q, inner)
    ELSE 0

\* the markers of t, by their opening brace: a marker never starts inside
\* an earlier marker
MarkerStarts(t, inner) ==
    LET sel[p \in 1..Len(t)] ==
            /\ MarkerEnd(t, p, inner) # 0
            /\ \A p0 \in 1..(p - 1) : sel[p0] => MarkerEnd(t, p0, inner) < p
    IN {p \in 1..Len(t) : sel[p]}

\* s without its leading and trailing whitespace
Trimmed(s) ==
    LET ink == {i \in 1..Len(s) : s[i] \notin {" ", "\n", "\t"}} IN
    IF ink = {} THEN <<>>
    ELSE SubSeq(s, CHOOSE i \in ink : \A j \in ink : i <= j,
                   CHOOSE i \in ink : \A j \in ink : j <= i)

\* the run of text after the marker that opens at o (o = 0: before the
\* first marker), up to the next marker or the end of the text
RunAfter(t, o, inner) ==
    LET from == IF o = 0 THEN 1 ELSE MarkerEnd(t, o, inner) + 1
        later == {p \in MarkerStarts(t, inner) : p > o}
        upto == IF later = {} THEN Len(t)
                ELSE (CHOOSE p \in later : \A r \in later : p <= r) - 1
    IN SubSeq(t, from, upto)

\* the style in force after the marker that opens at o: the trimmed content
\* of that marker, the nearest one before the run
StyleAt(t, o, inner) ==
    IF o = 0 THEN Regular ELSE Trimmed(SubSeq(t, o + 1, MarkerEnd(t, o, inner) - 1))

\* the runs that are not blank, by the marker they follow
NonBlankRuns(t, inner) ==
    {o \in {0} \cup MarkerStarts(t, inner) : Trimmed(RunAfter(t, o, inner)) # <<>>}

\* segs is, in input order, one segment per non-blank run of t
SegmentsAreTheRuns(segs, t, inner) ==
    LET runs == NonBlankRuns(t, inner) IN
    /\ Len(segs) = Cardinality(runs)
    /\ \A o \in runs :
          LET k == Cardinality({r \in runs : r < o}) + 1 IN
          /\ segs[k].text = Trimmed(RunAfter(t, o, inner))
          /\ segs[k].style = StyleAt(t, o, inner)

\* C2 as stated: parse_speechtypes_text returns, in input order, exactly one
\* segment per non-blank run of text between {...} markers, a marker being an
\* opening brace with the next closing brace, whatever stands between them;
\* the segment's text is the run without surrounding whitespace and its style
\* is the trimmed content of the nearest preceding marker, or "Regular" when
\* no marker precedes the run.
C2_SegmentsAreTheRunsBetweenBraces ==
    pc = "done" => SegmentsAreTheRuns(segments, gen_text, {})

\* C2, amended: the same, for the markers that have no line break between
\* their braces; an opening brace with a line break before the next closing
\* brace opens no marker and is text of the run it stands in.
C2_SegmentsAreTheNonBlankRuns ==
    pc = "done" => SegmentsAreTheRuns(segments, gen_text, {"\n"})

\* a text with two markers of different content, each followed by a run,
\* parsed into two segments: each in the style of the marker just before it
C2_Witness ==
    /\ pc = "done"
    /\ Cardinality(MarkerStarts(gen_text, {"\n"})) = 2
    /\ Len(segments) = 2
    /\ segments[1].style = <<"a">>
    /\ segments[2].style = <<"b">>

(***************************************************************************)
(* convert_numbers_to_arabic_text (lines 76-86).                           *)
(* A character outside ASCII is written by its name: "seen" is the one     *)
(* character ARABIC LETTER SEEN.                                           *)
(***************************************************************************)
\* [A-Za-z], over the Latin letters the texts are written with
IsLatin(c) == c \in {"a", "b", "z", "A", "Z"}

\* \d
IsDigit(c) == c \in {"0", "1", "2", "3", "4", "5", "6", "7", "8", "9"}

\* \w of a str pattern: letters of any script, digits and the underscore
IsWord(c) == IsLatin(c) \/ IsDigit(c) \/ c \in {"_", "seen"}

DigitValue(c) ==
    CASE c = "0" -> 0 [] c = "1" -> 1 [] c = "2" -> 2 [] c = "3" -> 3 [] c = "4" -> 4
      [] c = "5" -> 5 [] c = "6" -> 6 [] c = "7" -> 7 [] c = "8" -> 8 [] c = "9" -> 9

\* int(number) of a string of digits
RECURSIVE int(_)
int(ds) == IF ds = <<>> THEN 0 ELSE 10 * int(SubSeq(ds, 1, Len(ds) - 1)) + DigitValue(ds[Len(ds)])

\* num2words(n, lang='ar'): the Arabic words of n, kept as one element; the
\* library spells a number in letters and spaces, never in digits
num2words(n) == <<"num2words(" \o ToString(n) \o ")">>

\* replace_number (lines 80-82)
replace_number(number) == num2words(int(number))

\* re.sub(r'([A-Za-z])(\d)', r'\1 \2', s) from position i on
RECURSIVE sub_letter_digit(_, _)
sub_letter_digit(s, i) ==
    IF i > Len(s) THEN <<>>
    ELSE IF i < Len(s) /\ IsLatin(s[i]) /\ IsDigit(s[i + 1])
         THEN <<s[i], " ", s[i + 1]>> \o sub_letter_digit(s, i + 2)
         ELSE <<s[i]>> \o sub_letter_digit(s, i + 1)

\* re.sub(r'(\d)([A-Za-z])', r'\1 \2', s) from position i on
RECURSIVE sub_digit_letter(_, _)
sub_digit_letter(s, i) ==
    IF i > Len(s) THEN <<>>
    ELSE IF i < Len(s) /\ IsDigit(s[i]) /\ IsLatin(s[i + 1])
         THEN <<s[i], " ", s[i + 1]>> \o sub_digit_letter(s, i + 2)
         ELSE <<s[i]>> \o sub_digit_letter(s, i + 1)

\* \b before position i: exactly one of s[i-1], s[i] is a word character
\* (what lies outside the string is not)
word_boundary(s, i) ==
    (i > 1 /\ IsWord(s[i - 1])) # (i <= Len(s) /\ IsWord(s[i]))

\* the last position of the longest run of digits that starts at i
RECURSIVE digits_end(_, _)
digits_end(s, i) ==
    IF i + 1 <= Len(s) /\ IsDigit(s[i + 1]) THEN digits_end(s, i + 1) ELSE i

\* \d+\b with the run s[i..e] taken: the greedy \d+ gives digits back until
\* a \b follows; 0 when it never does
RECURSIVE backtrack_end(_, _, _)
backtrack_end(s, i, e) ==
    IF e < i THEN 0
    ELSE IF word_boundary(s, e + 1) THEN e
    ELSE backtrack_end(s, i, e - 1)

\* the end of the match of \b\d+\b that starts at i, or 0
match_number(s, i) ==
    IF i <= Len(s) /\ IsDigit(s[i]) /\ word_boundary(s, i)
    THEN backtrack_end(s, i, digits_end(s, i))
    ELSE 0

\* re.sub(r'\b\d+\b', replace_number, s) from position i on
RECURSIVE sub_numbers(_, _)
sub_numbers(s, i) ==
    IF i > Len(s) THEN <<>>
    ELSE LET e == match_number(s, i) IN
         IF e # 0
         THEN replace_number(SubSeq(s, i, e)) \o sub_numbers(s, e + 1)
         ELSE <<s[i]>> \o sub_numbers(s, i + 1)

convert_numbers_to_arabic_text(t) ==
    LET text_separated == sub_digit_letter(sub_letter_digit(t, 1), 1)
    IN sub_numbers(text_separated, 1)

(***************************************************************************)
(* Specification of convert_numbers_to_arabic_text on every bounded input. *)
(***************************************************************************)
NumAlphabet == {"a", "1", "0", "_", "seen", " "}

InitNum ==
    /\ pc = "input"
    /\ text \in Strings(NumAlphabet, MaxTextLen)
    /\ text_translated = <<>>
    /\ IdleParse
    /\ IdleRows
    /\ IdleChat
    /\ IdleMulti
    /\ IdleMain

CallConvert ==
    /\ pc = "input"
    /\ text_translated' = convert_numbers_to_arabic_text(text)
    /\ pc' = "done"
    /\ UNCHANGED <<text, parseVars, rowVars, chatVars, multiVars, mainVars>>

NextNum == CallConvert

SpecNum == InitNum /\ [][NextNum]_vars

\* the result the claim describes: every maximal run of digits replaced by
\* the words of its integer, a space put between a Latin letter and a digit
\* next to it, everything else kept
RECURSIVE Claimed(_, _)
Claimed(s, i) ==
    IF i > Len(s) THEN <<>>
    ELSE IF IsDigit(s[i])
         THEN LET e == digits_end(s, i) IN
              (IF i > 1 /\ IsLatin(s[i - 1]) THEN <<" ">> ELSE <<>>)
              \o num2words(int(SubSeq(s, i, e)))
              \o (IF e < Len(s) /\ IsLatin(s[e + 1]) THEN <<" ">> ELSE <<>>)
              \o Claimed(s, e + 1)
         ELSE <<s[i]>> \o Claimed(s, i + 1)

\* C3: convert_numbers_to_arabic_text replaces every maximal run of digits by
\* the Arabic words of that integer, whatever characters are next to the
\* digits, so the result holds no digit; all other text is kept in order,
\* a single space being put only between a Latin letter and a digit.
C3_EveryNumberBecomesWords ==
    pc = "done" =>
        /\ \A k \in 1..Len(text_translated) : ~IsDigit(text_translated[k])
        /\ text_translated = Claimed(text, 1)

(***************************************************************************)
(* The additional speech-type rows of the multi-style tab (lines 264-336). *)
(* A gr.update is "show" (visible=True), "hide" (visible=False) or "keep"  *)
(* (gr.update() with no argument).                                         *)
(***************************************************************************)
\* add_speech_type_fn with the test of line 297 written as <=
add_speech_type_fn_off_by_one(count) ==
    IF count <= max_speech_types - 1
    THEN [count |-> count + 1,
          row_updates |-> [k \in 1..(max_speech_types - 1) |->
                             IF k - 1 < count + 1 THEN "show" ELSE "keep"]]
    ELSE [count |-> count, row_updates |-> [k \in 1..(max_speech_types - 1) |-> "keep"]]

\* add_speech_type_fn (lines 296-309): the new count and the rows' updates
add_speech_type_fn(count) ==
    IF count < max_speech_types - 1
    THEN [count |-> count + 1,
          row_updates |-> [k \in 1..(max_speech_types - 1) |->
                             IF k - 1 < count + 1 THEN "show" ELSE "keep"]]
    ELSE [count |-> count, row_updates |-> [k \in 1..(max_speech_types - 1) |-> "keep"]]

\* make_delete_speech_type_fn(index) (lines 316-331)
delete_speech_type_fn(index, count) ==
    [count |-> IF count - 1 > 0 THEN count - 1 ELSE 0,
     row_updates |-> [k \in 1..(max_speech_types - 1) |->
                         IF k - 1 = index THEN "hide" ELSE "keep"]]

\* the outputs [speech_type_count] + speech_type_rows of a click handler
apply_row_updates(rows, row_updates) ==
    {i \in RowIndex :
        CASE py_index(row_updates, i) = "show" -> TRUE
          [] py_index(row_updates, i) = "hide" -> FALSE
          [] OTHER -> i \in rows}

\* add_speech_type_btn.click (lines 311-313)
AddClick ==
    /\ pc = "ui"
    /\ LET r == add_speech_type_fn(speech_type_count) IN
       /\ speech_type_count' = r.count
       /\ speech_type_rows' = apply_row_updates(speech_type_rows, r.row_updates)
    /\ UNCHANGED <<pc, parseVars, numVars, chatVars, multiVars, mainVars>>

\* delete_btn.click of row index (lines 334-336)
DeleteClick(index) ==
    /\ pc = "ui"
    /\ LET r == delete_speech_type_fn(index, speech_type_count) IN
       /\ speech_type_count' = r.count
       /\ speech_type_rows' = apply_row_updates(speech_type_rows, r.row_updates)
    /\ UNCHANGED <<pc, parseVars, numVars, chatVars, multiVars, mainVars>>

\* the delete button of a row that is shown
DeleteVisibleClick(index) ==
    /\ index \in speech_type_rows
    /\ DeleteClick(index)

\* the rows whose delete button the model clicks
DeleteRows == (0..(NumDeleteRows - 1)) \cup {max_speech_types - 2}

InitRows ==
    /\ pc = "ui"
    /\ IdleRows
    /\ IdleChat
    /\ IdleMulti
    /\ IdleMain
    /\ IdleParse
    /\ IdleNum
    /\ IdleChat
    /\ IdleMulti
    /\ IdleMain

\* add and delete clicks in any order, a delete on any of the rows
NextRows ==
    \/ AddClick
    \/ \E index \in DeleteRows : DeleteClick(index)

SpecRows == InitRows /\ [][NextRows]_vars

\* add and delete clicks in any order, a delete only on a row that is shown
NextVisibleRows ==
    \/ AddClick
    \/ \E index \in DeleteRows : DeleteVisibleClick(index)

SpecVisibleRows == InitRows /\ [][NextVisibleRows]_vars

\* C8: after any sequence of add and delete clicks, on any row,
\* speech_type_count stays within 0..99; an add click at count 99 and a
\* delete click at count 0 leave the count unchanged.
C8_CountStaysInRange ==
    [][/\ speech_type_count' \in 0..(max_speech_types - 1)
       /\ (AddClick /\ speech_type_count = max_speech_types - 1)
             => speech_type_count' = speech_type_count
       /\ ((\E index \in DeleteRows : DeleteClick(index)) /\ speech_type_count = 0)
             => speech_type_count' = speech_type_count]_vars

\* the count has reached 99, where a further add click changes nothing, and
\* every row is shown
C8_Witness ==
    /\ speech_type_count = max_speech_types - 1
    /\ speech_type_rows = RowIndex

\* C9: after any sequence of add clicks and delete clicks on visible rows,
\* speech_type_count equals the number of additional rows that are visible.
C9_CountIsNumberOfVisibleRows ==
    speech_type_count = Cardinality(speech_type_rows)

(***************************************************************************)
(* The voice chat (lines 573-698).                                         *)
(***************************************************************************)
\* app.queue() with its defaults (lines 741, 746): the events of one function
\* are run one at a time, those of different functions side by side
concurrency_limit == 1

\* process_audio_input from line 593 to its call of generate_response (line
\* 599), t being text as line 591 left it.  at tells where the call is:
\* returned (line 594) or in generate_response; history and conv_state are
\* the call's two lists as it left them, conv_state appended to in place
\* (line 596).
process_audio_input_text(t, history, conv_state) ==
    IF strip(t) = <<>>
    THEN [at |-> "returned", text |-> t, history |-> history, conv_state |-> conv_state]
    ELSE [at |-> "generate_response", text |-> t,
          history |-> Append(history, <<t, None>>),
          conv_state |-> Append(conv_state, [role |-> "user", content |-> t])]

\* process_audio_input from its start (lines 584-591): it returns at line
\* 588, calls preprocess_ref_audio_text when there is an audio, and goes on
\* with the typed text otherwise
process_audio_input(audio_path, txt, history, conv_state) ==
    IF ~truthy(audio_path) /\ strip(txt) = <<>>
    THEN [at |-> "returned", text |-> txt, history |-> history, conv_state |-> conv_state]
    ELSE IF truthy(audio_path)
         THEN [at |-> "preprocess_ref_audio_text", text |-> txt,
               history |-> history, conv_state |-> conv_state]
         ELSE process_audio_input_text(txt, history, conv_state)

\* process_audio_input from the return of generate_response (lines 599-604):
\* response is what generate_response returns; the result is the pair of
\* values wired to [chatbot_interface, conversation_state].
process_audio_input_return(call, response) ==
    [history |-> [call.history EXCEPT ![Len(call.history)] = <<call.text, response>>],
     conv_state |-> Append(call.conv_state, [role |-> "assistant", content |-> response])]

\* clear_conversation (lines 628-635)
clear_conversation ==
    [history |-> <<>>,
     conv_state |-> <<[role |-> "system", content |-> default_system_prompt]>>]

\* update_system_prompt (lines 637-640)
update_system_prompt(new_prompt) ==
    [history |-> <<>>, conv_state |-> <<[role |-> "system", content |-> new_prompt]>>]

\* what the user types, what the recogniser hears, what the model answers,
\* what the system prompt is changed to
TypedTexts == {<<>>, <<" ">>, <<"h", "i">>}
AudioPaths == {None, <<"mic.wav">>}
Transcripts == {<<" ">>, <<"o", "k">>}
Responses == {<<"y", "e", "s">>, <<"n", "o">>}
Prompts == {<<>>, <<"p">>}

\* A call r of process_audio_input has come to a return or to a wait.  On a
\* return its two lists replace the Chatbot value and the State.  On a wait
\* nothing is written, but what the call appended shows in conversation_state
\* when the State still holds the call's list (shared).
process_audio_input_step(r, shared) ==
    IF r.at = "returned"
    THEN /\ chatbot_interface' = r.history
         /\ conversation_state' = r.conv_state
         /\ process_calls' = <<>>
    ELSE /\ chatbot_interface' = chatbot_interface
         /\ conversation_state' = IF shared THEN r.conv_state ELSE conversation_state
         /\ process_calls' = <<[at |-> r.at, text |-> r.text, history |-> r.history,
                                conv_state |-> r.conv_state, shared |-> shared]>>

\* audio_input_chat.stop_recording, text_input_chat.submit and
\* send_btn_chat.click (lines 643-685): process_audio_input is started on the
\* current Chatbot value and the State's list
ProcessAudioInput ==
    /\ pc = "chat"
    /\ Len(process_calls) < concurrency_limit
    /\ Len(chatbot_interface) < MaxTurns
    /\ Len(conversation_state) < 1 + 2 * MaxTurns
    /\ \E audio_path \in AudioPaths, txt \in TypedTexts :
          process_audio_input_step(
              process_audio_input(audio_path, txt, chatbot_interface, conversation_state),
              TRUE)
    /\ UNCHANGED <<pc, parseVars, numVars, rowVars, multiVars, mainVars>>

\* preprocess_ref_audio_text returns the transcript to the waiting call
\* (line 591), which goes on to line 594 or 599
ProcessAudioInputTranscribed ==
    /\ pc = "chat"
    /\ process_calls # <<>>
    /\ Head(process_calls).at = "preprocess_ref_audio_text"
    /\ \E transcript \in Transcripts :
          LET call == Head(process_calls) IN
          process_audio_input_step(
              process_audio_input_text(transcript, call.history, call.conv_state),
              call.shared)
    /\ UNCHANGED <<pc, parseVars, numVars, rowVars, multiVars, mainVars>>

\* generate_response returns to the waiting call (lines 599-604): the call
\* appends the answer to the list it holds and its two return values replace
\* the Chatbot value and the State, whatever they have become meanwhile
ProcessAudioInputReturn ==
    /\ pc = "chat"
    /\ process_calls # <<>>
    /\ Head(process_calls).at = "generate_response"
    /\ \E response \in Responses :
          LET r == process_audio_input_return(Head(process_calls), response) IN
          /\ chatbot_interface' = r.history
          /\ conversation_state' = r.conv_state
    /\ process_calls' = <<>>
    /\ UNCHANGED <<pc, parseVars, numVars, rowVars, multiVars, mainVars>>

\* preprocess_ref_audio_text (line 591) or generate_response (line 599, from
\* lines 57-74) raises: the call ends, nothing is returned, and the Chatbot
\* value and the State's list stay as they are
ProcessAudioInputRaises ==
    /\ pc = "chat"
    /\ process_calls # <<>>
    /\ process_calls' = <<>>
    /\ UNCHANGED <<pc, chatbot_interface, conversation_state,
                   parseVars, numVars, rowVars, multiVars, mainVars>>

\* the State is given a new list: a waiting call keeps the old one
unshared(calls) == [k \in DOMAIN calls |-> [calls[k] EXCEPT !.shared = FALSE]]

\* clear_btn_chat.click (lines 688-691)
ClearConversation ==
    /\ pc = "chat"
    /\ chatbot_interface' = clear_conversation.history
    /\ conversation_state' = clear_conversation.conv_state
    /\ process_calls' = unshared(process_calls)
    /\ UNCHANGED <<pc, parseVars, numVars, rowVars, multiVars, mainVars>>

\* system_prompt_chat.change (lines 694-698)
UpdateSystemPrompt ==
    /\ pc = "chat"
    /\ \E new_prompt \in Prompts :
          /\ chatbot_interface' = update_system_prompt(new_prompt).history
          /\ conversation_state' = update_system_prompt(new_prompt).conv_state
    /\ process_calls' = unshared(process_calls)
    /\ UNCHANGED <<pc, parseVars, numVars, rowVars, multiVars, mainVars>>

InitChat ==
    /\ pc = "chat"
    /\ IdleChat
    /\ IdleMulti
    /\ IdleMain
    /\ IdleParse
    /\ IdleNum
    /\ IdleRows
    /\ IdleMulti
    /\ IdleMain

NextChat ==
    \/ ProcessAudioInput
    \/ ProcessAudioInputTranscribed
    \/ ProcessAudioInputReturn
    \/ ProcessAudioInputRaises
    \/ ClearConversation
    \/ UpdateSystemPrompt

SpecChat == InitChat /\ [][NextChat]_vars

\* C4: after any sequence of completed chat operations, that is whenever no
\* call of process_audio_input is waiting for its answer, the conversation
\* state is one system message followed by alternating user and assistant
\* messages, 1 + 2*len(history) in all, and the i-th history pair holds the
\* contents of the i-th user message and of the assistant message after it.
C4_ConversationAgreesWithHistory ==
    process_calls = <<>> =>
        /\ Len(conversation_state) = 1 + 2 * Len(chatbot_interface)
        /\ conversation_state[1].role = "system"
        /\ \A i \in 1..Len(chatbot_interface) :
              /\ conversation_state[2 * i].role = "user"
              /\ conversation_state[2 * i].content = chatbot_interface[i][1]
              /\ conversation_state[2 * i + 1].role = "assistant"
              /\ conversation_state[2 * i + 1].content = chatbot_interface[i][2]

(***************************************************************************)
(* Multi-style generation and validation (lines 264-287, 378-485).         *)
(***************************************************************************)
\* speech_type_names (lines 267, 283): regular_name, then the rows' names
speech_type_names == <<regular_name>> \o component_list(name_inputs, <<>>)

\* speech_type_audios (lines 268, 284)
speech_type_audios == component_list(audio_inputs, None)

\* speech_type_ref_texts (lines 269, 285)
speech_type_ref_texts == component_list(ref_text_inputs, <<>>)

\* the loop of lines 395-399 over zip(names, audios, ref_texts), started
\* with the dict d: a key is written by every triple that has a name and an
\* audio, and the last write stands
collect_speech_types(d, names, audios, ref_texts) ==
    LET n == IF Len(names) < Len(audios)
             THEN (IF Len(names) < Len(ref_texts) THEN Len(names) ELSE Len(ref_texts))
             ELSE (IF Len(audios) < Len(ref_texts) THEN Len(audios) ELSE Len(ref_texts))
        written == {k \in 1..n : truthy(names[k]) /\ truthy(audios[k])}
        writes(key) == {k \in written : names[k] = key}
    IN [key \in DOMAIN d \cup {names[k] : k \in written} |->
           IF writes(key) = {} THEN d[key]
           ELSE LET k == CHOOSE j \in writes(key) : \A i \in writes(key) : i <= j
                IN [audio |-> audios[k], ref_text |-> ref_texts[k]]]

\* infer (lines 89-129), as far as its arguments decide: the call and
\* whether remove_silence_for_generated_wav is applied (lines 117-122)
infer(ref_audio_orig, ref_text, gen, model, remove_silence) ==
    [ref_audio |-> ref_audio_orig, ref_text |-> ref_text, gen_text |-> gen,
     model |-> model, remove_silence |-> remove_silence,
     silence_removed |-> truthy(remove_silence)]

\* the loop of lines 408-427: one call of infer per segment
RECURSIVE generate_segments(_, _, _, _, _)
generate_segments(segs, k, speech_types, model_choice, remove_silence) ==
    IF k > Len(segs) THEN <<>>
    ELSE LET style == segs[k].style
             current_style == IF style \in DOMAIN speech_types THEN style ELSE Regular
             ref_audio == speech_types[current_style].audio
             ref_text == speech_types[current_style].ref_text
         IN <<infer(ref_audio, ref_text, segs[k].text, model_choice, remove_silence)>>
            \o generate_segments(segs, k + 1, speech_types, model_choice, remove_silence)

\* generate_multistyle_speech (lines 379-435): the calls of infer it makes
generate_multistyle_speech(reg_audio, reg_ref_text, gen, args) ==
    LET num_additional_speech_types == max_speech_types - 1
        speech_type_names_list == py_slice(args, 0, num_additional_speech_types)
        speech_type_audios_list ==
            py_slice(args, num_additional_speech_types, 2 * num_additional_speech_types)
        speech_type_ref_texts_list ==
            py_slice(args, 2 * num_additional_speech_types, 3 * num_additional_speech_types)
        model_choice == py_index(args, 3 * num_additional_speech_types)
        remove_silence == py_index(args, 3 * num_additional_speech_types + 1)
        speech_types ==
            collect_speech_types(
                (Regular :> [audio |-> reg_audio, ref_text |-> reg_ref_text]),
                speech_type_names_list, speech_type_audios_list,
                speech_type_ref_texts_list)
    IN generate_segments(parse_speechtypes_text(gen), 1, speech_types,
                         model_choice, remove_silence)

\* validate_speech_types (lines 455-479): the value of interactive
validate_speech_types(gen, reg_name, args) ==
    LET num_additional_speech_types == max_speech_types - 1
        speech_type_names_list == py_slice(args, 0, num_additional_speech_types)
        speech_types_available ==
            (IF truthy(reg_name) THEN {reg_name} ELSE {})
            \cup {speech_type_names_list[k] : k \in
                    {j \in 1..Len(speech_type_names_list) : truthy(speech_type_names_list[j])}}
        segs == parse_speechtypes_text(gen)
        speech_types_in_text == {segs[k].style : k \in 1..Len(segs)}
        missing_speech_types == speech_types_in_text \ speech_types_available
    IN missing_speech_types = {}

\* "Ninguno"
Ninguno == <<"N", "i", "n", "g", "u", "n", "o">>

\* insert_speech_type_fn (lines 347-351): the new value of the text box
insert_speech_type_fn(current_text, speech_type_name) ==
    LET current == IF truthy(current_text) THEN current_text ELSE <<>>
        name == IF truthy(speech_type_name) THEN speech_type_name ELSE Ninguno
        updated_text == current \o <<"{">> \o name \o <<"}", " ">>
    IN updated_text

\* speech_type_insert_btns[i].click (lines 355-361): the button of the
\* regular type is number 0, that of row i - 1 number i
InsertSpeechTypeClick(i) ==
    /\ pc = "input"
    /\ Len(gen_text_input_multistyle) <= MaxInsertLen
    /\ gen_text_input_multistyle' =
          insert_speech_type_fn(gen_text_input_multistyle, py_index(speech_type_names, i))
    /\ UNCHANGED <<pc, parseVars, numVars, rowVars, chatVars, regular_name, regular_audio,
                   regular_ref_text, name_inputs, audio_inputs, ref_text_inputs,
                   model_choice_multistyle, remove_silence_multistyle, infer_calls,
                   generate_multistyle_btn, mainVars>>

\* generate_multistyle_btn.click (lines 437-452)
GenerateMultistyleClick ==
    /\ pc = "input"
    /\ infer_calls' =
          generate_multistyle_speech(
              regular_audio, regular_ref_text, gen_text_input_multistyle,
              speech_type_names \o speech_type_audios \o speech_type_ref_texts
                  \o <<model_choice_multistyle, remove_silence_multistyle>>)
    /\ pc' = "generated"
    /\ UNCHANGED <<parseVars, numVars, rowVars, chatVars, multiInputs, generate_multistyle_btn, mainVars>>

\* gen_text_input_multistyle.change (lines 481-485), on a text typed or
\* written by an insert button
GenTextChange ==
    /\ pc = "input"
    /\ generate_multistyle_btn' =
          validate_speech_types(gen_text_input_multistyle, regular_name, speech_type_names)
    /\ pc' = "validated"
    /\ UNCHANGED <<parseVars, numVars, rowVars, chatVars, multiInputs, infer_calls, mainVars>>

\* the chunks a generation text is made of, and the texts
Chunks == {<<"x">>, <<"{", "a", "}", "x">>, <<"{", "b", "}", "y">>,
           <<"{", "c", "}", "z">>, <<"{", "}", "w">>}

RECURSIVE TextsOf(_)
TextsOf(n) ==
    IF n = 0 THEN {<<>>}
    ELSE LET shorter == TextsOf(n - 1) IN
         shorter \cup {t \o c : t \in shorter, c \in Chunks}

\* the rows the user fills in: the first and the last
FilledRows == {0, max_speech_types - 2}

\* the insert buttons clicked: that of the regular type and those of the rows
\* filled in
InsertButtons == {0} \cup {i + 1 : i \in FilledRows}

audio_of(i) == IF i = 0 THEN <<"first.wav">> ELSE <<"last.wav">>
ref_text_of(i) == IF i = 0 THEN <<"f", "i", "r", "s", "t">> ELSE <<"l", "a", "s", "t">>

InitMulti ==
    /\ pc = "input"
    /\ regular_name \in {Regular, <<>>, <<"a">>}
    /\ regular_audio = <<"regular.wav">>
    /\ regular_ref_text = <<"r", "e", "f">>
    /\ \E first \in {<<>>, <<"a">>, <<"b">>}, last \in {<<>>, <<"a">>} :
          name_inputs = [i \in FilledRows |-> IF i = 0 THEN first ELSE last]
    /\ \E given \in SUBSET FilledRows :
          audio_inputs = [i \in FilledRows |-> IF i \in given THEN audio_of(i) ELSE None]
    /\ \E last \in {<<>>, ref_text_of(max_speech_types - 2)} :
          ref_text_inputs = [i \in FilledRows |-> IF i = 0 THEN ref_text_of(0) ELSE last]
    /\ gen_text_input_multistyle \in TextsOf(MaxChunks)
    /\ model_choice_multistyle = <<"F5-TTS">>
    /\ remove_silence_multistyle \in {True, False}
    /\ infer_calls = <<>>
    /\ generate_multistyle_btn = TRUE
    /\ IdleParse
    /\ IdleNum
    /\ IdleRows
    /\ IdleChat
    /\ IdleMain

NextMulti ==
    \/ \E i \in InsertButtons : InsertSpeechTypeClick(i)
    \/ GenerateMultistyleClick
    \/ GenTextChange

SpecMulti == InitMulti /\ [][NextMulti]_vars

\* the speech types the user has defined under the name style: the rows with
\* that name and an audio
RowsNamed(style) ==
    {i \in RowIndex : /\ row_value(name_inputs, i, <<>>) # <<>>
                      /\ row_value(audio_inputs, i, None) # None
                      /\ row_value(name_inputs, i, <<>>) = style}

\* C1: for every segment of the text, if its style is "Regular" or the name
\* of an additional speech type that has a name and an audio, infer is called
\* with that type's own reference audio and text; otherwise with the Regular
\* reference audio and text, whatever the segment before used.
C1_EachSegmentUsesItsOwnType ==
    pc = "generated" =>
        LET segs == parse_speechtypes_text(gen_text_input_multistyle)
            regular == <<regular_audio, regular_ref_text>>
        IN /\ Len(infer_calls) = Len(segs)
           /\ \A k \in 1..Len(segs) :
                 LET style == segs[k].style
                     own == {<<row_value(audio_inputs, i, None), row_value(ref_text_inputs, i, <<>>)>> :
                                 i \in RowsNamed(style)}
                            \cup (IF style = Regular THEN {regular} ELSE {})
                     used == <<infer_calls[k].ref_audio, infer_calls[k].ref_text>>
                 IN /\ infer_calls[k].gen_text = segs[k].text
                    /\ IF own # {} THEN used \in own ELSE used = regular

\* C5: the generate button is made interactive exactly when every style of
\* every parsed segment is the regular name (if not empty) or a non-empty
\* name of one of the 99 additional rows.
C5_ButtonEnabledIffAllStylesAvailable ==
    pc = "validated" =>
        LET segs == parse_speechtypes_text(gen_text_input_multistyle)
            available == (IF regular_name # <<>> THEN {regular_name} ELSE {})
                         \cup ({row_value(name_inputs, i, <<>>) : i \in RowIndex} \ {<<>>})
        IN generate_multistyle_btn = (\A k \in 1..Len(segs) : segs[k].style \in available)

\* C6: every call of infer made for a segment is given the value of the
\* remove-silence checkbox, so that silence is removed exactly when the box is
\* checked, and the value of the model radio.
C6_CheckboxAndModelReachInfer ==
    pc = "generated" =>
        \A k \in 1..Len(infer_calls) :
            /\ infer_calls[k].remove_silence = remove_silence_multistyle
            /\ infer_calls[k].silence_removed = (remove_silence_multistyle = True)
            /\ infer_calls[k].model = model_choice_multistyle

(***************************************************************************)
(* The command-line entry point (lines 727-741).                           *)
(***************************************************************************)
\* main (lines 738-741): the arguments of app.queue and launch
main(p, h, s, a) ==
    [api_open |-> a, server_name |-> h, server_port |-> p, share |-> True, show_api |-> a]

Ports == {None, <<"80">>, <<"7860">>, <<"7861">>, <<"8080">>}
Hosts == {None, <<"0.0.0.0">>, <<"127.0.0.1">>, <<"localhost">>, <<"::">>}

InitMain ==
    /\ pc = "cli"
    /\ port \in Ports
    /\ host \in Hosts
    /\ share \in {True, False}
    /\ api \in {True, False}
    /\ launch = None
    /\ IdleParse
    /\ IdleNum
    /\ IdleRows
    /\ IdleChat
    /\ IdleMulti

Main ==
    /\ pc = "cli"
    /\ launch' = main(port, host, share, api)
    /\ pc' = "launched"
    /\ UNCHANGED <<parseVars, numVars, rowVars, chatVars, multiVars, port, host, share, api>>

NextMain == Main

SpecMain == InitMain /\ [][NextMain]_vars

\* C7: main shares the application through a public link only when the
\* --share flag is given, and launches on exactly the --host and --port given.
C7_SharedOnlyWhenAsked ==
    pc = "launched" =>
        /\ (launch.share = True) <=> (share = True)
        /\ launch.server_name = host
        /\ launch.server_port = port

====
